---- MODULE Spec2Model ----
(***************************************************************************)
(* Model of the Gantt Graph AI agent service (agent-service/main.py):      *)
(* the /api/chat endpoint, GanttAgentService.process and LLMClient.chat.   *)
(*                                                                         *)
(* Representation of Python values                                         *)
(*   - a text whose length matters (request message, backend reply) is a   *)
(*     sequence of tokens [c, n, v]: c the token kind, n its length in     *)
(*     characters, v the JSON value a "doc" token spells (NoValue          *)
(*     otherwise);                                                         *)
(*   - a short string (action type, description) is a sequence of          *)
(*     non-empty pieces, "" being <<>>, so that concatenation is \o;       *)
(*   - a JSON value is a tagged record; a dict is a TLA+ record whose      *)
(*     DOMAIN is the set of keys present.                                  *)
(***************************************************************************)
EXTENDS Integers, Sequences, FiniteSets, TLC

(***************************************************************************)
(* Bounds of the model                                                     *)
(***************************************************************************)
\* longest actions list a backend reply carries
MaxActions == 2
\* longest run of surrounding whitespace in a reply or a message
MaxPad == 1

(***************************************************************************)
(* Program constants                                                       *)
(***************************************************************************)
\* chat(): len(request.message) > 2000
MaxMessageLen == 2000
\* process(): len(fallback_msg) > 500, fallback_msg[:500]
FallbackLimit == 500

(***************************************************************************)
(* Short strings                                                           *)
(***************************************************************************)
S(s) == IF s = "" THEN <<>> ELSE <<s>>

(***************************************************************************)
(* JSON values                                                             *)
(***************************************************************************)
NoValue == [t |-> "none"]
JNull == [t |-> "null"]
JNum == [t |-> "num"]
JBool(b) == [t |-> "bool", b |-> b]
JStr(s) == [t |-> "str", s |-> s]
JList(items) == [t |-> "list", items |-> items]
JObj(f) == [t |-> "obj", f |-> f]

\* dict.get(key, default)
Get(d, k, default) == IF k \in DOMAIN d THEN d[k] ELSE default

(***************************************************************************)
(* Texts: sequences of tokens                                              *)
(***************************************************************************)
\* a token of kind c and n characters; v, i, k and at describe the tokens of
\* JSON documents
Tok(c, n) == [c |-> c, n |-> n, v |-> NoValue, i |-> 0, k |-> 0, at |-> ""]
Ws(n) == Tok("ws", n)
Txt(n) == Tok("txt", n)
Nl == Tok("nl", 1)
FenceJson == Tok("fence_json", 7)
Fence == Tok("fence", 3)
LineComment == Tok("lc", 2)
BlockOpen == Tok("bco", 2)
BlockClose == Tok("bcc", 2)
\* a complete JSON document of n characters spelling the value v
Doc(v, n) == [c |-> "doc", n |-> n, v |-> v, i |-> 0, k |-> 0, at |-> ""]
\* the i-th of the k pieces of a JSON document, cut where whitespace may
\* stand between its tokens (at = "") or inside the string literal that is the
\* value of the top-level key at: the text up to the next piece is then the
\* content of that literal; v is the value the document spells around its
\* cut literals
Part(v, i, k, at) == [c |-> "part", n |-> 2, v |-> v, i |-> i, k |-> k, at |-> at]

IsSpace(tok) == tok.c \in {"ws", "nl"}

RECURSIVE TextLen(_)
\* len(text)
TextLen(text) == IF text = <<>> THEN 0 ELSE Head(text).n + TextLen(Tail(text))

RECURSIVE LStrip(_)
LStrip(text) ==
    IF text = <<>> THEN <<>>
    ELSE IF IsSpace(Head(text)) THEN LStrip(Tail(text)) ELSE text

RECURSIVE RStrip(_)
RStrip(text) ==
    IF text = <<>> THEN <<>>
    ELSE IF IsSpace(text[Len(text)]) THEN RStrip(SubSeq(text, 1, Len(text) - 1))
    ELSE text

\* str.strip()
Strip(text) == RStrip(LStrip(text))

RECURSIVE Slice(_, _)
\* text[:k]; a token cut in the middle leaves a fragment of plain characters
Slice(text, k) ==
    IF text = <<>> \/ k <= 0 THEN <<>>
    ELSE IF Head(text).n <= k THEN <<Head(text)>> \o Slice(Tail(text), k - Head(text).n)
    ELSE <<Tok(IF Head(text).c = "ws" THEN "ws" ELSE "txt", k)>>

\* index of the first token satisfying a kind test, 0 when there is none
FirstIn(text, kinds) ==
    IF \E i \in 1..Len(text) : text[i].c \in kinds
    THEN CHOOSE i \in 1..Len(text) :
            /\ text[i].c \in kinds
            /\ \A j \in 1..(i - 1) : text[j].c \notin kinds
    ELSE 0

\* text.split(sep)[0] for a separator among kinds
BeforeFirst(text, kinds) ==
    IF FirstIn(text, kinds) = 0 THEN text
    ELSE SubSeq(text, 1, FirstIn(text, kinds) - 1)

\* the text after the first separator among kinds
AfterFirst(text, kinds) == SubSeq(text, FirstIn(text, kinds) + 1, Len(text))

(***************************************************************************)
(* Data models (pydantic)                                                  *)
(***************************************************************************)
\* message of a response: a fixed or formatted short string followed by the
\* text interpolated at its end (empty except in the parse fallback)
Msg(body, raw) == [body |-> body, raw |-> raw]

\* AgentResponse(...): actions, clarification_questions and
\* requiresConfirmation default to [], [] and False
AgentResponse(success, message, actions, needs_clarification, clarification_questions, requiresConfirmation) ==
    [success |-> success,
     message |-> message,
     actions |-> actions,
     needs_clarification |-> needs_clarification,
     clarification_questions |-> clarification_questions,
     requiresConfirmation |-> requiresConfirmation]

\* AgentAction(**action_data) passes validation: type and description are
\* required strings, params a dict, requiresConfirmation a bool
ValidAction(d) ==
    /\ "type" \in DOMAIN d
    /\ d["type"].t = "str"
    /\ "description" \in DOMAIN d
    /\ d["description"].t = "str"
    /\ ("params" \in DOMAIN d => d["params"].t = "obj")
    /\ ("requiresConfirmation" \in DOMAIN d => d["requiresConfirmation"].t = "bool")

\* the AgentAction built from a valid action_data
AgentAction(d) ==
    [type |-> d["type"].s,
     params |-> Get(d, "params", JObj(<<>>)),
     description |-> d["description"].s,
     requiresConfirmation |-> Get(d, "requiresConfirmation", JBool(FALSE)).b]

\* the fields of AgentResponse taken from the parsed reply pass validation;
\* the top-level requiresConfirmation is read only when the flag computed
\* from the actions is False (Python's or)
ValidResponseFields(result, response_requires_confirmation) ==
    /\ Get(result, "response", JStr(<<>>)).t = "str"
    /\ Get(result, "needs_clarification", JBool(FALSE)).t = "bool"
    /\ Get(result, "clarification_questions", JList(<<>>)).t = "list"
    /\ \A i \in 1..Len(Get(result, "clarification_questions", JList(<<>>)).items) :
          Get(result, "clarification_questions", JList(<<>>)).items[i].t = "str"
    /\ (response_requires_confirmation
            \/ Get(result, "requiresConfirmation", JBool(FALSE)).t = "bool")

(***************************************************************************)
(* process(): extraction, sanitization and structural parse                *)
(***************************************************************************)
\* Extract JSON from response (handle markdown code blocks)
ExtractJson(response_text) ==
    IF FirstIn(response_text, {"fence_json"}) # 0
    THEN Strip(BeforeFirst(AfterFirst(response_text, {"fence_json"}), {"fence", "fence_json"}))
    ELSE IF FirstIn(response_text, {"fence"}) # 0
    THEN Strip(BeforeFirst(AfterFirst(response_text, {"fence"}), {"fence"}))
    ELSE response_text

RECURSIVE RemoveLineComments(_)
\* re.sub(r'//.*?(?=\n|$)', '', json_str)
RemoveLineComments(text) ==
    IF text = <<>> THEN <<>>
    ELSE IF Head(text).c = "lc"
    THEN IF FirstIn(Tail(text), {"nl"}) = 0 THEN <<>>
         ELSE RemoveLineComments(SubSeq(Tail(text), FirstIn(Tail(text), {"nl"}), Len(Tail(text))))
    ELSE <<Head(text)>> \o RemoveLineComments(Tail(text))

RECURSIVE RemoveBlockComments(_)
\* re.sub(r'/\*.*?\*/', '', json_str, flags=re.DOTALL)
RemoveBlockComments(text) ==
    IF text = <<>> THEN <<>>
    ELSE IF Head(text).c = "bco"
    THEN IF FirstIn(Tail(text), {"bcc"}) = 0 THEN text
         ELSE RemoveBlockComments(AfterFirst(Tail(text), {"bcc"}))
    ELSE <<Head(text)>> \o RemoveBlockComments(Tail(text))

\* raise JSONDecodeError
JSONDecodeError == [ok |-> FALSE, value |-> NoValue]

\* the characters of a token read as content of a string literal
Chars(tok) ==
    CASE tok.c = "lc" -> <<"//">>
      [] tok.c = "bco" -> <<"/*">>
      [] tok.c = "bcc" -> <<"*/">>
      [] tok.c = "ws" -> <<" ">>
      [] tok.c \in {"fence", "fence_json"} -> <<"fence">>
      [] OTHER -> <<"text">>

\* the scanner before the first piece of a document
ScanStart == [next |-> 1, k |-> 0, base |-> NoValue, value |-> NoValue, at |-> "", lit |-> <<>>]

\* the scanner after the piece tok: a literal that was open is closed by
\* the piece and becomes the value of its key
ScanPiece(st, tok) ==
    [next |-> tok.i + 1, k |-> tok.k, base |-> tok.v,
     value |-> IF st.next = 1 THEN tok.v
               ELSE IF st.at = "" THEN st.value
               ELSE JObj((st.at :> JStr(st.lit)) @@ st.value.f),
     at |-> tok.at, lit |-> <<>>]

RECURSIVE LoadParts(_, _)
\* json.loads over a document in pieces: the pieces stand in order with
\* whitespace between them, and a string literal holds no line break and is
\* closed
LoadParts(text, st) ==
    IF text = <<>>
    THEN IF st.next > 1 /\ st.next = st.k + 1 /\ st.at = ""
         THEN [ok |-> TRUE, value |-> st.value]
         ELSE JSONDecodeError
    ELSE IF Head(text).c = "part"
    THEN IF \/ Head(text).i # st.next
            \/ st.next > 1 /\ (Head(text).v # st.base \/ Head(text).k # st.k)
            \/ Head(text).i = Head(text).k /\ Head(text).at # ""
         THEN JSONDecodeError
         ELSE LoadParts(Tail(text), ScanPiece(st, Head(text)))
    ELSE IF st.at # ""
    THEN IF Head(text).c \in {"nl", "doc"} THEN JSONDecodeError
         ELSE LoadParts(Tail(text), [st EXCEPT !.lit = @ \o Chars(Head(text))])
    ELSE IF IsSpace(Head(text)) THEN LoadParts(Tail(text), st)
    ELSE JSONDecodeError

\* json.loads(json_str): the value of the document, or JSONDecodeError
json_loads(json_str) ==
    IF Len(Strip(json_str)) = 1 /\ Strip(json_str)[1].c = "doc"
    THEN [ok |-> TRUE, value |-> Strip(json_str)[1].v]
    ELSE LoadParts(json_str, ScanStart)

(***************************************************************************)
(* process(): per-action normalization                                     *)
(***************************************************************************)
dangerous_actions == {S("delete_task"), S("delete_bucket"), S("remove_dependency")}

\* str() of a JSON value inside an f-string
Str(v) == IF v.t = "str" THEN v.s ELSE S(v.t)

\* Ensure description field exists
EnsureDescription(action_data) ==
    IF "description" \notin DOMAIN action_data
    THEN [k \in DOMAIN action_data \cup {"description"} |->
            IF k = "description"
            THEN JStr(S("exec: ") \o Str(Get(action_data, "type", JStr(S("unknown")))))
            ELSE action_data[k]]
    ELSE action_data

\* action_type in dangerous_actions
IsDangerous(action_data) ==
    /\ Get(action_data, "type", JStr(<<>>)).t = "str"
    /\ Get(action_data, "type", JStr(<<>>)).s \in dangerous_actions


\* MarkDangerous without the forced flag: the entry keeps what the reply said
MarkDangerous_unforced(action_data) == action_data

\* Auto-mark dangerous operations
MarkDangerous(action_data) ==
    IF IsDangerous(action_data)
    THEN [k \in DOMAIN action_data \cup {"requiresConfirmation"} |->
            IF k = "requiresConfirmation" THEN JBool(TRUE) ELSE action_data[k]]
    ELSE action_data

RECURSIVE BuildActions(_, _, _)
\* for action_data in result.get("actions", []): the loop stops at the first
\* entry that raises, with the actions appended so far
BuildActions(entries, actions, response_requires_confirmation) ==
    IF entries = <<>>
    THEN [ok |-> TRUE, actions |-> actions, flag |-> response_requires_confirmation, err |-> ""]
    ELSE IF Head(entries).t # "obj"
    THEN [ok |-> FALSE, actions |-> actions, flag |-> response_requires_confirmation,
          err |-> "AttributeError"]
    ELSE IF ~ValidAction(MarkDangerous(EnsureDescription(Head(entries).f)))
    THEN [ok |-> FALSE, actions |-> actions, flag |-> response_requires_confirmation,
          err |-> "ValidationError"]
    ELSE BuildActions(Tail(entries),
                      Append(actions, AgentAction(MarkDangerous(EnsureDescription(Head(entries).f)))),
                      response_requires_confirmation \/ IsDangerous(Head(entries).f))


\* BatchConfirmation without the batch rule
BatchConfirmation_single(actions, response_requires_confirmation) == response_requires_confirmation

\* Batch operations also require confirmation
BatchConfirmation(actions, response_requires_confirmation) ==
    IF Len(actions) > 1 THEN TRUE ELSE response_requires_confirmation

(***************************************************************************)
(* process(): context serialization and prompt                             *)
(***************************************************************************)
\* bool(v) of a JSON value
Truthy(v) ==
    CASE v.t = "null" -> FALSE
      [] v.t = "bool" -> v.b
      [] v.t = "str" -> v.s # <<>>
      [] v.t = "list" -> v.items # <<>>
      [] v.t = "obj" -> DOMAIN v.f # {}
      [] OTHER -> TRUE

\* any(kw in user_message_lower for kw in [...]): the keywords of the message
\* are its tokens of the kinds named
HasKeyword(message, kinds) == \E i \in 1..Len(message) : message[i].c \in kinds

include_progress(message) == HasKeyword(message, {"kw_progress", "kw_done"})
include_status(message) == HasKeyword(message, {"kw_status", "kw_done"})
include_description(message) == HasKeyword(message, {"kw_description"})

\* b.get(key) if isinstance(b, dict) else getattr(b, key, default)
BucketField(b, key, default) == IF b.t = "obj" THEN Get(b.f, key, JNull) ELSE default

RECURSIVE buckets_dict(_, _)
\* buckets_dict.get(bucket_id, default): the last bucket with that id decides
buckets_dict(buckets, bucket_id) ==
    IF buckets = <<>> THEN JStr(S("unassigned"))
    ELSE IF /\ Truthy(BucketField(buckets[Len(buckets)], "id", JNull))
            /\ BucketField(buckets[Len(buckets)], "id", JNull) = bucket_id
    THEN IF Truthy(BucketField(buckets[Len(buckets)], "name", JNull))
         THEN BucketField(buckets[Len(buckets)], "name", JNull)
         ELSE BucketField(buckets[Len(buckets)], "id", JNull)
    ELSE buckets_dict(SubSeq(buckets, 1, Len(buckets) - 1), bucket_id)

\* building the line of a task raises: t is not a dict, its id cannot be
\* sliced, or its description is requested and cannot be sliced
TaskRaises(t, message) ==
    \/ t.t # "obj"
    \/ Get(t.f, "id", JStr(<<Txt(7)>>)).t # "str"
    \/ /\ include_description(message)
       /\ Truthy(Get(t.f, "description", JNull))
       /\ Get(t.f, "description", JNull).t # "str"

\* Build task info string
task_info(t, message) ==
    [id |-> Slice(Get(t, "id", JStr(<<Txt(7)>>)).s, 8),
     title |-> Get(t, "title", JStr(S("Unknown"))),
     status |-> IF include_status(message) \/ include_progress(message)
                THEN <<Get(t, "status", JStr(S("Unknown"))),
                       Get(t, "progress", Get(t, "completedPercent", JNum))>>
                ELSE <<>>,
     dates |-> IF /\ Truthy(IF Truthy(Get(t, "startDate", JNull))
                            THEN Get(t, "startDate", JNull) ELSE Get(t, "startDateTime", JNull))
                  /\ Truthy(IF Truthy(Get(t, "dueDate", JNull))
                            THEN Get(t, "dueDate", JNull) ELSE Get(t, "dueDateTime", JNull))
               THEN <<IF Truthy(Get(t, "startDate", JNull))
                      THEN Get(t, "startDate", JNull) ELSE Get(t, "startDateTime", JNull),
                      IF Truthy(Get(t, "dueDate", JNull))
                      THEN Get(t, "dueDate", JNull) ELSE Get(t, "dueDateTime", JNull)>>
               ELSE <<>>,
     priority |-> IF Truthy(Get(t, "priority", JNull)) /\ Get(t, "priority", JNull) # JStr(S("Normal"))
                  THEN <<Get(t, "priority", JNull)>> ELSE <<>>,
     description |-> IF include_description(message) /\ Truthy(Get(t, "description", JNull))
                     THEN Slice(Get(t, "description", JNull).s, 50) ELSE <<>>]

\* the group of a task
TaskBucket(t, buckets) == buckets_dict(buckets, Get(t, "bucketId", JStr(S("unknown"))))

RECURSIVE GroupNames(_, _, _)
\* keys of tasks_by_bucket in insertion order
GroupNames(tasks, buckets, seen) ==
    IF tasks = <<>> THEN seen
    ELSE IF \E i \in 1..Len(seen) : seen[i] = TaskBucket(Head(tasks).f, buckets)
    THEN GroupNames(Tail(tasks), buckets, seen)
    ELSE GroupNames(Tail(tasks), buckets, Append(seen, TaskBucket(Head(tasks).f, buckets)))

RECURSIVE GroupItems(_, _, _, _)
\* tasks_by_bucket[bucket_name]
GroupItems(tasks, buckets, message, bucket_name) ==
    IF tasks = <<>> THEN <<>>
    ELSE IF TaskBucket(Head(tasks).f, buckets) = bucket_name
    THEN <<task_info(Head(tasks).f, message)>> \o GroupItems(Tail(tasks), buckets, message, bucket_name)
    ELSE GroupItems(Tail(tasks), buckets, message, bucket_name)

\* max_tasks with the smaller cap from 50 tasks on
max_tasks_from_50(tasks) == IF Len(tasks) >= 50 THEN 10 ELSE 15

\* max_tasks = 10 if len(tasks) > 50 else 15
max_tasks(tasks) == IF Len(tasks) > 50 THEN 10 ELSE 15

\* the block of one group: its first max_tasks lines and the line with the
\* omitted count, when there is one
GroupBlock(task_items, tasks, bucket_name) ==
    [name |-> bucket_name,
     lines |-> SubSeq(task_items, 1, IF Len(task_items) > max_tasks(tasks)
                                     THEN max_tasks(tasks) ELSE Len(task_items)),
     more |-> IF Len(task_items) > max_tasks(tasks)
              THEN <<Len(task_items) - max_tasks(tasks)>> ELSE <<>>]

\* Also list available buckets with types
bucket_list(buckets) ==
    [i \in 1..Len(buckets) |->
        [name |-> BucketField(buckets[i], "name", JStr(S("Unknown"))),
         type_label |-> IF buckets[i].t = "obj"
                           /\ Get(buckets[i].f, "bucketType", JStr(S("task"))) = JStr(S("milestone"))
                        THEN "milestone group" ELSE "task group"]]

NoContext == <<>>

\* the buckets and tasks read from the context, [] when absent or falsy
ContextList(context, key) ==
    IF Truthy(Get(context, key, JNull)) THEN Get(context, key, JNull) ELSE JList(<<>>)

\* serializing the context raises (outside every try block of process)
ContextRaises(context, message) ==
    \/ ContextList(context, "buckets").t # "list"
    \/ ContextList(context, "tasks").t # "list"
    \/ /\ ContextList(context, "buckets").t = "list"
       /\ ContextList(context, "tasks").t = "list"
       /\ \E i \in 1..Len(ContextList(context, "tasks").items) :
             TaskRaises(ContextList(context, "tasks").items[i], message)

\* context_info when serialization does not raise
context_info(context, message) ==
    [project |-> IF Truthy(Get(context, "currentProject", JNull))
                 THEN <<Get(context, "currentProject", JNull)>> ELSE <<>>,
     total |-> IF Truthy(Get(context, "tasks", JNull))
               THEN <<Len(ContextList(context, "tasks").items)>> ELSE <<>>,
     groups |-> [g \in 1..Len(GroupNames(ContextList(context, "tasks").items,
                                         ContextList(context, "buckets").items, <<>>)) |->
                   GroupBlock(GroupItems(ContextList(context, "tasks").items,
                                         ContextList(context, "buckets").items, message,
                                         GroupNames(ContextList(context, "tasks").items,
                                                    ContextList(context, "buckets").items, <<>>)[g]),
                              ContextList(context, "tasks").items,
                              GroupNames(ContextList(context, "tasks").items,
                                         ContextList(context, "buckets").items, <<>>)[g])],
     buckets |-> bucket_list(ContextList(context, "buckets").items)]

\* a piece of the instruction template: plain text, or a literal year
Piece(text) == [k |-> "text", text |-> text, y |-> 0]
YearPiece(y) == [k |-> "year", text |-> "", y |-> y]

\* self.system_prompt.replace('2025-', f'{current_year}-'): the pieces of
\* the template that spell the example year 2025 are rewritten
StampYear(template, current_year) ==
    [i \in 1..Len(template) |->
        IF template[i] = YearPiece(2025) THEN YearPiece(current_year) ELSE template[i]]

\* messages = [{"role": "system", ...}, {"role": "user", ...}]
BuildMessages(template, request, ref_date) ==
    <<[role |-> "system", content |-> StampYear(template, ref_date.year)],
      [role |-> "user",
       content |-> [today |-> ref_date,
                    context_info |-> context_info(request.context, request.message),
                    message |-> request.message]]>>

(***************************************************************************)
(* _calculate_date(): calendar arithmetic of datetime                      *)
(***************************************************************************)
\* a calendar date; the time of day of a datetime plays no part
Date(y, m, d) == [year |-> y, month |-> m, day |-> d]

IsLeap(y) == (y % 4 = 0 /\ y % 100 # 0) \/ y % 400 = 0

DaysInMonth(y, m) ==
    IF m = 2 THEN (IF IsLeap(y) THEN 29 ELSE 28)
    ELSE IF m \in {4, 6, 9, 11} THEN 30 ELSE 31

\* datetime(y, m, d) does not raise ValueError
ValidDate(y, m, d) == y \in 1..9999 /\ m \in 1..12 /\ d \in 1..DaysInMonth(y, m)

DaysBeforeYear(y) == (y - 1) * 365 + (y - 1) \div 4 - (y - 1) \div 100 + (y - 1) \div 400

RECURSIVE DaysBeforeMonth(_, _)
DaysBeforeMonth(y, m) == IF m = 1 THEN 0 ELSE DaysBeforeMonth(y, m - 1) + DaysInMonth(y, m - 1)

\* date.toordinal(): 0001-01-01 is day 1
toordinal(date) == DaysBeforeYear(date.year) + DaysBeforeMonth(date.year, date.month) + date.day

YearOfOrdinal(n) ==
    CHOOSE y \in (n \div 366)..(n \div 365 + 1) : DaysBeforeYear(y) < n /\ n <= DaysBeforeYear(y + 1)

MonthOfOrdinal(n) ==
    CHOOSE m \in 1..12 :
        /\ DaysBeforeMonth(YearOfOrdinal(n), m) < n - DaysBeforeYear(YearOfOrdinal(n))
        /\ n - DaysBeforeYear(YearOfOrdinal(n))
              <= DaysBeforeMonth(YearOfOrdinal(n), m) + DaysInMonth(YearOfOrdinal(n), m)

\* date.fromordinal(n)
fromordinal(n) ==
    Date(YearOfOrdinal(n), MonthOfOrdinal(n),
         n - DaysBeforeYear(YearOfOrdinal(n)) - DaysBeforeMonth(YearOfOrdinal(n), MonthOfOrdinal(n)))

\* date.weekday(): Monday is 0
weekday(date) == (toordinal(date) + 6) % 7

\* date + timedelta(days=n)
AddDays(date, n) == fromordinal(toordinal(date) + n)

(***************************************************************************)
(* _calculate_date(): date expressions                                     *)
(*                                                                         *)
(* An expression is a sequence of words and numbers.  A word is one of the *)
(* literals the resolver knows, a space or a separator; the Chinese        *)
(* literals are written in pinyin (jintian, mingtian, xiazhou, yi .. ri,   *)
(* xiageyue, benyuedi, yuedi, tian, ri, hou, nian, yue).  A number carries *)
(* its value and the count of digits it is written with.                   *)
(***************************************************************************)
W(s) == [k |-> "w", s |-> s, n |-> 0, w |-> 0]
Num(n, w) == [k |-> "n", s |-> "", n |-> n, w |-> w]
Sp == W(" ")

RECURSIVE Digits(_)
\* the count of digits of a number written without padding
Digits(n) == IF n < 10 THEN 1 ELSE 1 + Digits(n \div 10)

\* a number formatted with at least w digits
Padded(n, w) == Num(n, IF Digits(n) > w THEN Digits(n) ELSE w)

\* date.strftime("%Y-%m-%d")
strftime(date) ==
    <<Padded(date.year, 1), W("-"), Padded(date.month, 2), W("-"), Padded(date.day, 2)>>

Capitals ==
    [Today |-> "today", Tomorrow |-> "tomorrow", NEXT |-> "next", Next |-> "next",
     Monday |-> "monday", Week |-> "week", Days |-> "days", Later |-> "later", March |-> "march"]

\* str.lower()
Lower(expr) ==
    [i \in 1..Len(expr) |->
        IF expr[i].k = "w" /\ expr[i].s \in DOMAIN Capitals
        THEN W(Capitals[expr[i].s]) ELSE expr[i]]

RECURSIVE LStripE(_)
LStripE(expr) ==
    IF expr = <<>> THEN <<>> ELSE IF Head(expr) = Sp THEN LStripE(Tail(expr)) ELSE expr

RECURSIVE RStripE(_)
RStripE(expr) ==
    IF expr = <<>> THEN <<>>
    ELSE IF expr[Len(expr)] = Sp THEN RStripE(SubSeq(expr, 1, Len(expr) - 1)) ELSE expr

\* date_expression.lower().strip()
date_expr(date_expression) == RStripE(LStripE(Lower(date_expression)))

WeekdaysZh == <<"yi", "er", "san", "si", "wu", "liu", "ri">>
WeekdaysEn == <<"monday", "tuesday", "wednesday", "thursday", "friday", "saturday", "sunday">>

\* the keys of weekday_map that name weekday d
WeekdayKeys(d) == {<<W("xiazhou"), W(WeekdaysZh[d + 1])>>, <<W("next"), Sp, W(WeekdaysEn[d + 1])>>}

\* the expression is a key of weekday_map
IsWeekdayKey(expr) == \E d \in 0..6 : expr \in WeekdayKeys(d)

\* weekday_map[expr]
weekday_map(expr) == CHOOSE d \in 0..6 : expr \in WeekdayKeys(d)

\* days_ahead adding the week only when the target lies behind
days_ahead_same_day(target, reference_date) ==
    IF target - weekday(reference_date) < 0
    THEN target - weekday(reference_date) + 7
    ELSE target - weekday(reference_date)

\* days_ahead = weekday - reference_date.weekday(); if days_ahead <= 0: += 7
days_ahead(target, reference_date) ==
    IF target - weekday(reference_date) <= 0
    THEN target - weekday(reference_date) + 7
    ELSE target - weekday(reference_date)

\* days_ahead of "next week": 0 - weekday + 7, and 7 on a Monday
days_to_next_week(reference_date) ==
    IF weekday(reference_date) = 0 THEN 7 ELSE 0 - weekday(reference_date) + 7

\* first day of the month after the reference month
next_month(reference_date) ==
    IF reference_date.month = 12 THEN Date(reference_date.year + 1, 1, 1)
    ELSE Date(reference_date.year, reference_date.month + 1, 1)

\* the index of the first number of re.search(r'(\d+)\s*(tian|ri)\s*(hou|later)'),
\* 0 when the pattern does not occur
RECURSIVE SkipSpaces(_, _)
SkipSpaces(expr, i) == IF i <= Len(expr) /\ expr[i] = Sp THEN SkipSpaces(expr, i + 1) ELSE i

DaysPatternAt(expr, i) ==
    /\ expr[i].k = "n"
    /\ SkipSpaces(expr, i + 1) <= Len(expr)
    /\ expr[SkipSpaces(expr, i + 1)] \in {W("tian"), W("ri")}
    /\ SkipSpaces(expr, SkipSpaces(expr, i + 1) + 1) <= Len(expr)
    /\ expr[SkipSpaces(expr, SkipSpaces(expr, i + 1) + 1)] \in {W("hou"), W("later")}

days_match(expr) ==
    IF \E i \in 1..Len(expr) : DaysPatternAt(expr, i)
    THEN CHOOSE i \in 1..Len(expr) :
            DaysPatternAt(expr, i) /\ \A j \in 1..(i - 1) : ~DaysPatternAt(expr, j)
    ELSE 0

\* a number matches %m or %d: one or two digits, not zero
TwoDigit(tok, max) == tok.k = "n" /\ tok.w \in {1, 2} /\ tok.n \in 1..max

\* datetime.strptime(date_expr, "%Y-%m-%d") does not raise
MatchesIso(expr) ==
    /\ Len(expr) = 5
    /\ expr[1].k = "n" /\ expr[1].w = 4
    /\ expr[2] = W("-") /\ expr[4] = W("-")
    /\ TwoDigit(expr[3], 12) /\ TwoDigit(expr[5], 31)
    /\ ValidDate(expr[1].n, expr[3].n, expr[5].n)

\* datetime.strptime(date_expr, "%Y nian %m yue %d ri") does not raise
MatchesYMD(expr) ==
    /\ Len(expr) = 6
    /\ expr[1].k = "n" /\ expr[1].w = 4
    /\ expr[2] = W("nian") /\ expr[4] = W("yue") /\ expr[6] = W("ri")
    /\ TwoDigit(expr[3], 12) /\ TwoDigit(expr[5], 31)
    /\ ValidDate(expr[1].n, expr[3].n, expr[5].n)

\* the year strptime gives a date parsed without %Y
StrptimeDefaultYear == 1900

\* datetime.strptime(date_expr, "%m yue %d ri") does not raise: the day is
\* checked against the month in the default year
MatchesMD(expr) ==
    /\ Len(expr) = 4
    /\ expr[2] = W("yue") /\ expr[4] = W("ri")
    /\ TwoDigit(expr[1], 12) /\ TwoDigit(expr[3], 31)
    /\ ValidDate(StrptimeDefaultYear, expr[1].n, expr[3].n)

\* month_names, in the order of the dict
month_names ==
    <<[name |-> "january", month |-> 1], [name |-> "jan", month |-> 1],
      [name |-> "february", month |-> 2], [name |-> "feb", month |-> 2],
      [name |-> "march", month |-> 3], [name |-> "mar", month |-> 3],
      [name |-> "april", month |-> 4], [name |-> "apr", month |-> 4],
      [name |-> "may", month |-> 5],
      [name |-> "june", month |-> 6], [name |-> "jun", month |-> 6],
      [name |-> "july", month |-> 7], [name |-> "jul", month |-> 7],
      [name |-> "august", month |-> 8], [name |-> "aug", month |-> 8],
      [name |-> "september", month |-> 9], [name |-> "sep", month |-> 9],
      [name |-> "sept", month |-> 9],
      [name |-> "october", month |-> 10], [name |-> "oct", month |-> 10],
      [name |-> "november", month |-> 11], [name |-> "nov", month |-> 11],
      [name |-> "december", month |-> 12], [name |-> "dec", month |-> 12]>>

\* the abbreviations that occur inside a longer month name
Inside ==
    {<<"jan", "january">>, <<"feb", "february">>, <<"mar", "march">>, <<"apr", "april">>,
     <<"jun", "june">>, <<"jul", "july">>, <<"aug", "august">>, <<"sep", "september">>,
     <<"sept", "september">>, <<"sep", "sept">>, <<"oct", "october">>, <<"nov", "november">>,
     <<"dec", "december">>}

\* name in date_expr
NameIn(name, expr) ==
    \E i \in 1..Len(expr) :
        expr[i].k = "w" /\ (expr[i].s = name \/ <<name, expr[i].s>> \in Inside)

\* re.search(r'(\d{1,2})', date_expr): the first two digits of the first number
HasNumber(expr) == \E i \in 1..Len(expr) : expr[i].k = "n"

FirstNumber(expr) ==
    expr[CHOOSE i \in 1..Len(expr) : expr[i].k = "n" /\ \A j \in 1..(i - 1) : expr[j].k # "n"]

RECURSIVE LeadingTwo(_, _)
LeadingTwo(n, w) == IF w <= 2 THEN n ELSE LeadingTwo(n \div 10, w - 1)

\* the first month name of the table that occurs in the expression
FirstMonth(expr) ==
    month_names[CHOOSE i \in 1..Len(month_names) :
                   /\ NameIn(month_names[i].name, expr)
                   /\ \A j \in 1..(i - 1) : ~NameIn(month_names[j].name, expr)].month

NoDate == <<>>

\* the rules of _calculate_date after the "N days later" pattern, on the
\* lowered and stripped expression
ParseAbsolute(expr, reference_date) ==
    IF MatchesIso(expr) THEN expr
    ELSE IF MatchesYMD(expr) THEN strftime(Date(expr[1].n, expr[3].n, expr[5].n))
    ELSE IF MatchesMD(expr) /\ ValidDate(reference_date.year, expr[1].n, expr[3].n)
    THEN strftime(Date(reference_date.year, expr[1].n, expr[3].n))
    ELSE IF /\ \E i \in 1..Len(month_names) : NameIn(month_names[i].name, expr)
            /\ HasNumber(expr)
            /\ ValidDate(reference_date.year, FirstMonth(expr),
                         LeadingTwo(FirstNumber(expr).n, FirstNumber(expr).w))
    THEN strftime(Date(reference_date.year, FirstMonth(expr),
                       LeadingTwo(FirstNumber(expr).n, FirstNumber(expr).w)))
    ELSE NoDate

\* the rules of _calculate_date on the lowered and stripped expression
Resolve(expr, reference_date) ==
    IF expr \in {<<W("jintian")>>, <<W("today")>>} THEN strftime(reference_date)
    ELSE IF expr \in {<<W("mingtian")>>, <<W("tomorrow")>>}
    THEN strftime(AddDays(reference_date, 1))
    ELSE IF IsWeekdayKey(expr)
    THEN strftime(AddDays(reference_date, days_ahead(weekday_map(expr), reference_date)))
    ELSE IF expr \in {<<W("xiazhou")>>, <<W("next"), Sp, W("week")>>}
    THEN strftime(AddDays(reference_date, days_to_next_week(reference_date)))
    ELSE IF expr \in {<<W("xiageyue")>>, <<W("next"), Sp, W("month")>>}
    THEN strftime(next_month(reference_date))
    ELSE IF expr \in {<<W("benyuedi")>>, <<W("yuedi")>>, <<W("end"), Sp, W("of"), Sp, W("month")>>}
    THEN strftime(AddDays(next_month(reference_date), -1))
    ELSE IF days_match(expr) # 0
    THEN strftime(AddDays(reference_date, expr[days_match(expr)].n))
    ELSE ParseAbsolute(expr, reference_date)

\* _calculate_date(date_expression, reference_date): the formatted date, or
\* NoDate for None
_calculate_date(date_expression, reference_date) ==
    Resolve(date_expr(date_expression), reference_date)

(***************************************************************************)
(* Exception handlers and early returns                                    *)
(***************************************************************************)
\* the handling of the request ends by returning a response
Return(resp) == [pc |-> "done", returned |-> <<resp>>, escaped |-> FALSE]

\* chat(): not request.message or not request.message.strip()
MessageEmpty(message) == Strip(message) = <<>>


\* MessageTooLong with the limit off by one
MessageTooLong_off_by_one(message) == TextLen(message) > MaxMessageLen + 1

\* chat(): len(request.message) > 2000
MessageTooLong(message) == TextLen(message) > MaxMessageLen

EmptyMessageResponse ==
    AgentResponse(FALSE, Msg(S("please enter an instruction"), <<>>), <<>>, TRUE,
                  <<S("please describe the operation")>>, FALSE)

TooLongResponse ==
    AgentResponse(FALSE, Msg(S("input too long (2000 characters at most)"), <<>>), <<>>, TRUE,
                  <<>>, FALSE)


\* chat_except re-raising: the exception leaves chat()
chat_except_reraise(e) == [pc |-> "done", returned |-> <<>>, escaped |-> TRUE]

\* chat(): except Exception as e
chat_except(e) ==
    Return(AgentResponse(FALSE, Msg(S("internal error: ") \o S(e), <<>>), <<>>, FALSE, <<>>, FALSE))

\* LLMClient.chat(): if not self.api_key: raise ValueError(...)
KeyMissing(key) == ~key


\* llm_except retrying the completion call instead of returning
llm_except_retry(e) == [pc |-> "call", returned |-> <<>>, escaped |-> FALSE]

\* process(): except Exception as e around self.llm.chat(messages)
llm_except(e) ==
    Return(AgentResponse(FALSE, Msg(S("AI service call failed: ") \o S(e), <<>>), <<>>, FALSE,
                         <<>>, FALSE))

Ellipsis == Tok("ellipsis", 3)


\* fallback_msg without the cut
fallback_msg_uncut(response_text) == Strip(response_text)

\* fallback_msg = response_text.strip(), cut to 500 characters + "..."
fallback_msg(response_text) ==
    IF TextLen(Strip(response_text)) > FallbackLimit
    THEN Append(Slice(Strip(response_text), FallbackLimit), Ellipsis)
    ELSE Strip(response_text)

\* process(): except json.JSONDecodeError as e
json_except(response_text) ==
    AgentResponse(FALSE, Msg(S("unstructured reply, please rephrase. raw reply: "),
                             fallback_msg(response_text)),
                  <<>>, TRUE, <<S("please describe your request in another way")>>, FALSE)


\* process_except returning the actions built before the failure
process_except_partial(actions, e) ==
    AgentResponse(FALSE, Msg(S("error while processing: ") \o S(e), <<>>), actions, TRUE,
                  <<S("please try to describe your request again")>>, FALSE)

\* process(): except Exception as e around the parse; actions is the list
\* built when the exception was raised
process_except(actions, e) ==
    AgentResponse(FALSE, Msg(S("error while processing: ") \o S(e), <<>>), <<>>, TRUE,
                  <<S("please try to describe your request again")>>, FALSE)

\* SuccessResponse with the flag of the loop and the batch rule alone
SuccessResponse_without_reply_flag(result, actions, response_requires_confirmation) ==
    AgentResponse(TRUE,
                  Msg(Get(result, "response", JStr(S("Processed successfully"))).s, <<>>),
                  actions,
                  Get(result, "needs_clarification", JBool(FALSE)).b,
                  [i \in 1..Len(Get(result, "clarification_questions", JList(<<>>)).items) |->
                      Get(result, "clarification_questions", JList(<<>>)).items[i].s],
                  response_requires_confirmation)

\* return AgentResponse(success=True, ...)
SuccessResponse(result, actions, response_requires_confirmation) ==
    AgentResponse(TRUE,
                  Msg(Get(result, "response", JStr(S("Processed successfully"))).s, <<>>),
                  actions,
                  Get(result, "needs_clarification", JBool(FALSE)).b,
                  [i \in 1..Len(Get(result, "clarification_questions", JList(<<>>)).items) |->
                      Get(result, "clarification_questions", JList(<<>>)).items[i].s],
                  response_requires_confirmation
                      \/ Get(result, "requiresConfirmation", JBool(FALSE)).b)

\* process(): the body of the try block once json.loads has returned result
Assemble(result) ==
    IF result.t # "obj" THEN process_except(<<>>, "AttributeError")
    ELSE IF Get(result.f, "actions", JList(<<>>)).t # "list"
    THEN process_except(<<>>, "TypeError")
    ELSE LET built == BuildActions(Get(result.f, "actions", JList(<<>>)).items, <<>>, FALSE)
             flag == BatchConfirmation(built.actions, built.flag)
         IN  IF ~built.ok THEN process_except(built.actions, built.err)
             ELSE IF ~ValidResponseFields(result.f, flag)
             THEN process_except(built.actions, "ValidationError")
             ELSE SuccessResponse(result.f, built.actions, flag)

\* the JSON text handed to json.loads
Sanitize(response_text) == RemoveBlockComments(RemoveLineComments(ExtractJson(response_text)))

\* process(): everything after self.llm.chat(messages) has returned
Parse(response_text) ==
    IF ~json_loads(Sanitize(response_text)).ok
    THEN json_except(response_text)
    ELSE Assemble(json_loads(Sanitize(response_text)).value)

(***************************************************************************)
(* Inputs: requests of the front-end and completions of the backend        *)
(***************************************************************************)
Kinds == {"add_task", "delete_task", "delete_bucket", "remove_dependency"}

\* the dicts over two disjoint sets of keys, merged
Merge(A, B) == {a @@ b : a \in A, b \in B}

\* a key that is absent or carries one of the values
Opt(key, values) == {<<>>} \cup {key :> v : v \in values}

\* entries of the actions list: every type with every confirmation flag, the
\* description variants on a few types, and an entry that is not a dict
Entries ==
    {JObj(d) : d \in Merge(Merge(Opt("type", {JStr(S(k)) : k \in Kinds}),
                                 {"description" :> JStr(S("d"))}),
                           Opt("requiresConfirmation", {JBool(FALSE), JBool(TRUE)}))}
    \cup {JObj(d) : d \in Merge(Opt("type", {JStr(S("add_task")), JStr(S("delete_task"))}),
                                Opt("description", {JStr(<<>>)}))}
    \cup {JStr(S("noise"))}

RECURSIVE SeqsUpTo(_, _)
\* the sequences over a set of length at most n
SeqsUpTo(set, n) ==
    IF n = 0 THEN {<<>>}
    ELSE SeqsUpTo(set, n - 1)
         \cup {Append(q, e) : q \in {r \in SeqsUpTo(set, n - 1) : Len(r) = n - 1}, e \in set}

AddEntry == JObj(("type" :> JStr(S("add_task"))) @@ ("description" :> JStr(S("d"))))
DeleteEntry == JObj(("type" :> JStr(S("delete_task"))) @@ ("description" :> JStr(S("d"))))

SmallLists == {<<>>, <<AddEntry>>, <<DeleteEntry>>, <<AddEntry, AddEntry>>}

\* parsed replies: every actions list with every top-level confirmation flag,
\* every combination of the pass-through fields over a few lists, replies
\* without a usable actions list, and replies that are not a dict
Payloads ==
    {JObj(d) : d \in Merge({"actions" :> JList(q) : q \in SeqsUpTo(Entries, MaxActions)},
                           Opt("requiresConfirmation", {JBool(FALSE), JBool(TRUE)}))}
    \cup {JObj(d) : d \in Merge(Merge({"actions" :> JList(q) : q \in SmallLists},
                                      Opt("response", {JStr(S("ok")), JNull})),
                                Merge(Opt("needs_clarification", {JBool(FALSE), JBool(TRUE)}),
                                      Opt("clarification_questions",
                                          {JList(<<>>), JList(<<JStr(S("which task?"))>>)})))}
    \cup {JObj(d) : d \in Opt("actions", {JNull})}
    \cup {JList(<<>>), JNum}

SmallPayloads ==
    {JObj(("actions" :> JList(q)) @@ ("response" :> JStr(S("ok")))) : q \in SmallLists}

\* whitespace of length n, nothing when n = 0
Pad(n) == IF n = 0 THEN <<>> ELSE <<Ws(n)>>

\* completions: the bare document, the document in a fenced block, with
\* comments, and prose of lengths around the fallback limit
ReplyTexts ==
    {<<Doc(p, 2)>> : p \in Payloads}
    \cup {<<Txt(5), Nl, FenceJson, Nl, Doc(p, 2), Nl, Fence, Nl, Txt(3)>> : p \in SmallPayloads}
    \cup {<<Txt(5), Nl, Fence, Nl, Doc(p, 2), Nl, Fence>> : p \in SmallPayloads}
    \cup {<<Doc(p, 2), Ws(1), LineComment, Txt(4)>> : p \in SmallPayloads}
    \cup {<<BlockOpen, Txt(4), BlockClose, Nl, Doc(p, 2), Nl>> : p \in SmallPayloads}
    \cup {<<BlockOpen, Txt(4), Doc(p, 2)>> : p \in SmallPayloads}
    \cup {<<LineComment, Txt(4), Doc(p, 2)>> : p \in SmallPayloads}
    \cup {<<Txt(FallbackLimit), Ws(1), Doc(p, 2)>> : p \in SmallPayloads}
    \cup {Pad(a) \o <<Txt(n)>> \o Pad(b) :
             a \in 0..MaxPad, b \in 0..MaxPad,
             n \in {1, FallbackLimit - 1, FallbackLimit, FallbackLimit + 1}}
    \cup {<<Txt(FallbackLimit - 1), Ws(2), Txt(3)>>, <<Ws(1)>>}

Messages ==
    {Pad(a) : a \in 0..MaxPad}
    \cup {Pad(a) \o <<Txt(n - a)>> :
             a \in 0..MaxPad, n \in {MaxMessageLen, MaxMessageLen + 1}}
    \cup {<<Txt(1)>>}

KeywordMessage == <<Txt(4), Tok("kw_status", 6), Ws(1), Tok("kw_description", 11)>>

TaskOf(id, bucketId) ==
    JObj([id |-> id, title |-> JStr(S("t")), bucketId |-> JStr(S(bucketId)),
          description |-> JStr(<<Txt(60)>>), priority |-> JStr(S("High"))])

GoodContext ==
    [currentProject |-> JStr(S("p")),
     buckets |-> JList(<<JObj([id |-> JStr(S("b1")), name |-> JStr(S("Dev"))]),
                         JObj([id |-> JStr(S("b2")), name |-> JNull,
                               bucketType |-> JStr(S("milestone"))])>>),
     tasks |-> JList(<<TaskOf(JStr(<<Txt(12)>>), "b1"), TaskOf(JStr(<<Txt(3)>>), "b9"),
                       TaskOf(JStr(<<Txt(8)>>), "b1")>>)]

\* snapshots whose serialization raises: a task id that is a number, a task
\* that is not a dict, a tasks value that is not a list
BadContexts ==
    {[tasks |-> JList(<<TaskOf(JStr(<<Txt(3)>>), "b1"), TaskOf(JNum, "b1")>>)],
     [tasks |-> JList(<<JStr(<<Txt(3)>>)>>)],
     [tasks |-> JNum]}

Request(message, context, now) == [message |-> message, context |-> context, now |-> now]

Requests ==
    {Request(m, NoContext, Date(2025, 12, 31)) : m \in Messages}
    \cup {Request(KeywordMessage, c, Date(2026, 11, 3)) : c \in {NoContext, GoodContext} \cup BadContexts}

NoRequest == Request(<<>>, NoContext, Date(2025, 1, 1))

Template == <<Piece("rules"), YearPiece(2025), Piece("examples"), YearPiece(2024)>>

NoCompletion == [kind |-> "none", text |-> <<>>]

(***************************************************************************)
(* State                                                                   *)
(***************************************************************************)
VARIABLES
    api_key,        \* LLMClient.api_key is set
    system_prompt,  \* GanttAgentService.system_prompt
    pc,             \* position of the handler of the current request
    request,        \* the AgentRequest being handled
    messages,       \* the messages of the completion call in flight
    calls,          \* completion calls issued for the current request
    completion,     \* what the completion call produced
    returned,       \* the responses returned for the current request
    escaped,        \* an exception left chat()
    cur,            \* the request handler the variables above belong to
    others,         \* the saved variables of the other handlers in flight
    fn_in,          \* the arguments of a function applied on its own
    fn_out          \* what the function returned

vars == <<api_key, system_prompt, pc, request, messages, calls, completion, returned, escaped,
          cur, others, fn_in, fn_out>>

\* what the handling of requests leaves alone
aux == <<cur, others, fn_in, fn_out>>

NoCall == [fn |-> "none"]

service == <<api_key, system_prompt>>

Init ==
    /\ api_key \in BOOLEAN
    /\ system_prompt = Template
    /\ pc = "idle"
    /\ request = NoRequest
    /\ messages = <<>>
    /\ calls = 0
    /\ completion = NoCompletion
    /\ returned = <<>>
    /\ escaped = FALSE
    /\ cur = 1
    /\ others = <<>>
    /\ fn_in = NoCall
    /\ fn_out = NoCall

\* the end of the handling of the request, as the handler decided it
Finish(outcome) ==
    /\ pc' = outcome.pc
    /\ returned' = returned \o outcome.returned
    /\ escaped' = outcome.escaped

\* a request arrives at POST /api/chat
ReceiveFrom(requests) ==
    /\ pc \in {"idle", "done"}
    /\ ~escaped
    /\ \E r \in requests : request' = r
    /\ pc' = "chat"
    /\ messages' = <<>>
    /\ calls' = 0
    /\ completion' = NoCompletion
    /\ returned' = <<>>
    /\ UNCHANGED <<service, escaped, aux>>

Receive == ReceiveFrom(Requests)

\* chat(): input validation rejects the message
ChatReject ==
    /\ pc = "chat"
    /\ \/ /\ MessageEmpty(request.message)
          /\ Finish(Return(EmptyMessageResponse))
       \/ /\ ~MessageEmpty(request.message)
          /\ MessageTooLong(request.message)
          /\ Finish(Return(TooLongResponse))
    /\ UNCHANGED <<service, request, messages, calls, completion, aux>>

\* system_prompt_after with the stamped template stored back
system_prompt_after_stored(template, current_year) == StampYear(template, current_year)

\* self.system_prompt once process() has built the messages: str.replace
\* returns a new string and the attribute is not assigned
system_prompt_after(template, current_year) == template

\* chat() calls process(), which serializes the context and builds the
\* messages; an exception raised there reaches the handler of chat()
ProcessPrepare ==
    /\ pc = "chat"
    /\ ~MessageEmpty(request.message)
    /\ ~MessageTooLong(request.message)
    /\ IF ContextRaises(request.context, request.message)
       THEN /\ Finish(chat_except("TypeError"))
            /\ UNCHANGED <<messages, system_prompt>>
       ELSE /\ messages' = BuildMessages(system_prompt, request, request.now)
            /\ system_prompt' = system_prompt_after(system_prompt, request.now.year)
            /\ pc' = "call"
            /\ UNCHANGED <<returned, escaped>>
    /\ UNCHANGED <<api_key, request, calls, completion, aux>>

\* self.llm.chat(messages): raises without a key, else issues the call
LLMCall ==
    /\ pc = "call"
    /\ IF KeyMissing(api_key)
       THEN /\ Finish(llm_except("LLM API key not configured"))
            /\ UNCHANGED calls
       ELSE /\ calls' = calls + 1
            /\ pc' = "awaiting"
            /\ UNCHANGED <<returned, escaped>>
    /\ UNCHANGED <<service, request, messages, completion, aux>>

\* the completion call raises (network error, timeout)
BackendError ==
    /\ pc = "awaiting"
    /\ completion' = [kind |-> "error", text |-> <<>>]
    /\ Finish(llm_except("backend error"))
    /\ UNCHANGED <<service, request, messages, calls, aux>>

\* the completion has no content: raise ValueError("LLM returned empty response")
BackendEmpty ==
    /\ pc = "awaiting"
    /\ completion' = [kind |-> "empty", text |-> <<>>]
    /\ Finish(llm_except("LLM returned empty response"))
    /\ UNCHANGED <<service, request, messages, calls, aux>>

\* the completion has content: process() parses it and returns
ReplyFrom(texts) ==
    /\ pc = "awaiting"
    /\ \E text \in texts :
          /\ completion' = [kind |-> "text", text |-> text]
          /\ Finish(Return(Parse(text)))
    /\ UNCHANGED <<service, request, messages, calls, aux>>

BackendReply == ReplyFrom(ReplyTexts)

Next ==
    \/ Receive
    \/ ChatReject
    \/ ProcessPrepare
    \/ LLMCall
    \/ BackendError
    \/ BackendEmpty
    \/ BackendReply

Spec == Init /\ [][Next]_vars

(***************************************************************************)
(* Requests handled concurrently                                           *)
(***************************************************************************)
\* handlers in flight at the same time
MaxInFlight == 2

\* the variables of one request handler
Handler(p, r, m, c, k, ret, esc) ==
    [pc |-> p, request |-> r, messages |-> m, calls |-> c, completion |-> k,
     returned |-> ret, escaped |-> esc]

IdleHandler == Handler("idle", NoRequest, <<>>, 0, NoCompletion, <<>>, FALSE)

\* the handler of request slot i
H(i) ==
    IF i = cur THEN Handler(pc, request, messages, calls, completion, returned, escaped)
    ELSE others[i]

ConcRequests ==
    {Request(<<Txt(1)>>, NoContext, Date(2025, 12, 31)),
     Request(<<Txt(1)>>, NoContext, Date(2026, 1, 1)),
     Request(KeywordMessage, GoodContext, Date(2026, 11, 3)),
     Request(<<Txt(MaxMessageLen + 1)>>, NoContext, Date(2026, 1, 1))}

ConcReplyTexts ==
    {<<Doc(JObj("actions" :> JList(<<AddEntry>>)), 2)>>,
     <<Doc(JObj("actions" :> JList(<<DeleteEntry, AddEntry>>)), 2)>>,
     <<Txt(FallbackLimit + 1)>>}

InitConc ==
    /\ api_key \in BOOLEAN
    /\ system_prompt = Template
    /\ pc = "idle"
    /\ request = NoRequest
    /\ messages = <<>>
    /\ calls = 0
    /\ completion = NoCompletion
    /\ returned = <<>>
    /\ escaped = FALSE
    /\ cur = 1
    /\ others = [i \in 1..MaxInFlight |-> IdleHandler]
    /\ fn_in = NoCall
    /\ fn_out = NoCall

ReceiveConc == ReceiveFrom(ConcRequests)

BackendReplyConc == ReplyFrom(ConcReplyTexts)

\* the worker turns to the handler of another request
Switch ==
    /\ \E j \in (1..MaxInFlight) \ {cur} :
          /\ others' = [others EXCEPT ![cur] = H(cur), ![j] = IdleHandler]
          /\ cur' = j
          /\ pc' = others[j].pc
          /\ request' = others[j].request
          /\ messages' = others[j].messages
          /\ calls' = others[j].calls
          /\ completion' = others[j].completion
          /\ returned' = others[j].returned
          /\ escaped' = others[j].escaped
    /\ UNCHANGED <<service, fn_in, fn_out>>

NextConc ==
    \/ ReceiveConc
    \/ ChatReject
    \/ ProcessPrepare
    \/ LLMCall
    \/ BackendError
    \/ BackendEmpty
    \/ BackendReplyConc
    \/ Switch

SpecConc == InitConc /\ [][NextConc]_vars

(***************************************************************************)
(* Snapshots with many tasks                                               *)
(***************************************************************************)
\* largest number of tasks of the second group
MaxGroupSize == 42

\* the sizes of the first group: around both caps
NearCaps == 9..16

Digit == <<"0", "1", "2", "3", "4", "5", "6", "7", "8", "9">>

\* the i-th task of a snapshot, titled by its position
NumberedTask(i, bucketId) ==
    JObj([id |-> JStr(<<Txt(3)>>),
          title |-> JStr(<<Digit[(i \div 10) + 1], Digit[(i % 10) + 1]>>),
          bucketId |-> JStr(S(bucketId))])

\* a + b tasks: a of the bucket b1 and b of an unknown bucket, alternating
\* as long as both last
NumberedTasks(a, b) ==
    [i \in 1..(a + b) |->
        IF i <= 2 * (IF a < b THEN a ELSE b)
        THEN NumberedTask(i, IF i % 2 = 1 THEN "b1" ELSE "b9")
        ELSE NumberedTask(i, IF a > b THEN "b1" ELSE "b9")]

LargeContext(a, b) == [buckets |-> GoodContext.buckets, tasks |-> JList(NumberedTasks(a, b))]

LargeRequests ==
    {Request(KeywordMessage, LargeContext(a, b), Date(2026, 11, 3)) :
        a \in NearCaps, b \in 0..MaxGroupSize}
    \cup {Request(Pad(0), NoContext, Date(2026, 11, 3))}

ReceiveLarge == ReceiveFrom(LargeRequests)

NextLarge ==
    \/ ReceiveLarge
    \/ ChatReject
    \/ ProcessPrepare
    \/ LLMCall
    \/ BackendError
    \/ BackendEmpty
    \/ BackendReplyConc

SpecLarge == Init /\ [][NextLarge]_vars

(***************************************************************************)
(* Replies with comments and with comment markers inside string literals   *)
(***************************************************************************)
\* the payloads written in pieces
PiecePayloads == {JObj(("actions" :> JList(q)) @@ ("response" :> JStr(S("ok")))) : q \in SmallLists}

\* the content of a string literal holding a URL
UrlLiteral == <<Txt(4), LineComment, Txt(5)>>

\* the document of p with comments between its tokens: line comments, block
\* comments on one line and on two, both, a block comment whose text holds
\* '//', and a line comment after a literal holding a URL
CommentedBodies(p) ==
    {<<Part(p, 1, 3, "response")>> \o UrlLiteral
        \o <<Part(p, 2, 3, ""), Ws(1), LineComment, Txt(4), Nl, Part(p, 3, 3, "")>>,
     <<Part(p, 1, 2, ""), Ws(1), LineComment, Txt(4), Nl, Part(p, 2, 2, "")>>,
     <<Part(p, 1, 2, ""), Nl, Part(p, 2, 2, ""), Ws(1), LineComment, Txt(4)>>,
     <<Part(p, 1, 2, ""), Ws(1), LineComment, Ws(1), BlockOpen, Txt(4), Nl, Part(p, 2, 2, "")>>,
     <<Part(p, 1, 2, ""), BlockOpen, Txt(4), BlockClose, Part(p, 2, 2, "")>>,
     <<Part(p, 1, 2, ""), BlockOpen, Txt(4), Nl, Txt(4), BlockClose, Nl, Part(p, 2, 2, "")>>,
     <<Part(p, 1, 3, ""), LineComment, Txt(4), Nl, Part(p, 2, 3, ""), BlockOpen, Txt(4),
       BlockClose, Nl, Part(p, 3, 3, "")>>,
     <<Part(p, 1, 2, ""), BlockOpen, Txt(4), LineComment, Txt(4), BlockClose, Nl,
       Part(p, 2, 2, "")>>}

\* the comment-free document of p whose response literal holds a URL, on
\* one line and on two
UrlBodies(p) ==
    {<<Part(p, 1, 2, "response")>> \o UrlLiteral \o <<Part(p, 2, 2, "")>>,
     <<Part(p, 1, 3, "response")>> \o UrlLiteral \o <<Part(p, 2, 3, ""), Nl, Part(p, 3, 3, "")>>}

\* comment-free documents without a comment marker in a literal, and with a
\* block comment marker pair in a literal
PlainBodies(p) ==
    {<<Part(p, 1, 2, ""), Nl, Part(p, 2, 2, "")>>,
     <<Part(p, 1, 2, "response"), Txt(4), Part(p, 2, 2, "")>>,
     <<Part(p, 1, 2, "response"), Txt(1), BlockOpen, Txt(1), BlockClose, Part(p, 2, 2, "")>>,
     <<Part(p, 1, 2, ""), Nl>>,
     <<Part(p, 2, 2, ""), Nl, Part(p, 1, 2, "")>>}

\* a body as the raw reply, in a json-tagged fenced block and in a plain
\* fenced block
Wrappings(body) ==
    {body,
     <<Txt(5), Nl, FenceJson, Nl>> \o body \o <<Nl, Fence, Nl, Txt(3)>>,
     <<Fence, Nl>> \o body \o <<Nl, Fence>>}

CommentedTexts == UNION {Wrappings(b) : b \in UNION {CommentedBodies(p) : p \in PiecePayloads}}
UrlTexts == UNION {Wrappings(b) : b \in UNION {UrlBodies(p) : p \in PiecePayloads}}
PlainTexts == UNION {Wrappings(b) : b \in UNION {PlainBodies(p) : p \in PiecePayloads}}

PieceTexts == CommentedTexts \cup UrlTexts \cup PlainTexts

BackendReplyPieces == ReplyFrom(PieceTexts)

NextPieces ==
    \/ Receive
    \/ ChatReject
    \/ ProcessPrepare
    \/ LLMCall
    \/ BackendError
    \/ BackendEmpty
    \/ BackendReplyPieces

SpecPieces == Init /\ [][NextPieces]_vars

(***************************************************************************)
(* _calculate_date() applied on its own                                    *)
(***************************************************************************)
\* days after each anchor date taken as reference dates
MaxRefSpan == 6
\* largest N of an "N days later" expression
MaxDays == 3

\* reference dates: a week around a leap day, a week across the end of a
\* year, and a week of an ordinary month
RefDates ==
    {AddDays(a, k) : a \in {Date(2024, 2, 26), Date(2025, 12, 29), Date(2026, 11, 2)},
                     k \in 0..MaxRefSpan}

\* the expressions of rules 1 to 3, lowered and stripped
TodayExprs == {<<W("jintian")>>, <<W("today")>>}
TomorrowExprs == {<<W("mingtian")>>, <<W("tomorrow")>>}
NextWeekdayExprs == UNION {WeekdayKeys(d) : d \in 0..6}
NextWeekExprs == {<<W("xiazhou")>>, <<W("next"), Sp, W("week")>>}

\* the spellings of "N days later" in both locales
DaysLaterZh(n) == {<<Num(n, Digits(n)), W("tian"), W("hou")>>, <<Num(n, Digits(n)), W("ri"), W("hou")>>}
DaysLaterEn(n) ==
    {<<Num(n, Digits(n)), Sp, W("days"), Sp, W("later")>>,
     <<Num(n, Digits(n)), Sp, W("day"), Sp, W("later")>>}

\* "M yue D ri"
MonthDay(m, d) == <<Num(m, Digits(m)), W("yue"), Num(d, Digits(d)), W("ri")>>

DateExprs ==
    TodayExprs \cup TomorrowExprs \cup NextWeekdayExprs \cup NextWeekExprs
    \cup {<<Sp, W("Today")>>, <<W("Tomorrow"), Sp>>, <<W("NEXT"), Sp, W("Monday"), Sp>>,
          <<W("Next"), Sp, W("Week")>>}
    \cup {<<W("xiageyue")>>, <<W("next"), Sp, W("month")>>, <<W("benyuedi")>>, <<W("yuedi")>>,
          <<W("end"), Sp, W("of"), Sp, W("month")>>}
    \cup UNION {DaysLaterZh(n) \cup DaysLaterEn(n) : n \in 0..MaxDays}
    \cup {<<Num(2, 1), Sp, W("ri"), Sp, W("later")>>, <<Num(10, 2), W("tian"), W("hou"), Sp>>}
    \cup {MonthDay(m, d) : m \in 1..12, d \in 1..31}
    \cup {<<Num(3, 2), W("yue"), Num(5, 2), W("ri")>>, <<Num(13, 2), W("yue"), Num(1, 1), W("ri")>>}
    \cup {<<Num(2025, 4), W("-"), Num(3, 2), W("-"), Num(15, 2)>>,
          <<Num(2025, 4), W("-"), Num(2, 2), W("-"), Num(30, 2)>>,
          <<Num(2024, 4), W("nian"), Num(2, 1), W("yue"), Num(29, 2), W("ri")>>,
          <<W("March"), Sp, Num(15, 2)>>, <<W("feb"), Sp, Num(30, 2)>>,
          <<W("sept"), Sp, Num(2026, 4)>>, <<W("may")>>, <<W("someday")>>}

DateCall(expr, ref) == [fn |-> "_calculate_date", expr |-> expr, ref |-> ref]

InitDate ==
    /\ api_key = TRUE
    /\ system_prompt = Template
    /\ pc = "idle"
    /\ request = NoRequest
    /\ messages = <<>>
    /\ calls = 0
    /\ completion = NoCompletion
    /\ returned = <<>>
    /\ escaped = FALSE
    /\ cur = 1
    /\ others = <<>>
    /\ fn_in \in {DateCall(e, r) : e \in DateExprs, r \in RefDates}
    /\ fn_out = NoCall

\* _calculate_date returns
CalculateDate ==
    /\ fn_in.fn = "_calculate_date"
    /\ fn_out = NoCall
    /\ fn_out' = [fn |-> "_calculate_date", value |-> _calculate_date(fn_in.expr, fn_in.ref)]
    /\ UNCHANGED <<service, pc, request, messages, calls, completion, returned, escaped,
                   cur, others, fn_in>>

NextDate == CalculateDate

SpecDate == InitDate /\ [][NextDate]_vars

(***************************************************************************)
(* Properties                                                              *)
(***************************************************************************)
\* the response returned for the current request, once there is one
Handled == pc = "done" /\ Len(returned) = 1

\* the completion is the bare JSON document of this dict
RepliedWith(d) == completion = [kind |-> "text", text |-> <<Doc(JObj(d), 2)>>]

\* C1: in every response returned, every action whose type is delete_task,
\* delete_bucket or remove_dependency has requiresConfirmation = true,
\* whatever the reply said about that flag.
C1_DangerousActionsConfirmed ==
    \A i \in 1..Len(returned) : \A j \in 1..Len(returned[i].actions) :
        returned[i].actions[j].type \in {<<"delete_task">>, <<"delete_bucket">>, <<"remove_dependency">>}
            => returned[i].actions[j].requiresConfirmation

\* a reply whose only entry is a delete_bucket with the flag set to false was
\* answered with that action, flagged
C1_Witness ==
    /\ Handled
    /\ RepliedWith("actions" :> JList(<<JObj(("type" :> JStr(S("delete_bucket")))
                                            @@ ("description" :> JStr(S("d")))
                                            @@ ("requiresConfirmation" :> JBool(FALSE)))>>))
    /\ Len(returned[1].actions) = 1
    /\ returned[1].actions[1].type = <<"delete_bucket">>
    /\ returned[1].actions[1].requiresConfirmation

\* C2: a response that carries more than one action has the response-level
\* requiresConfirmation = true.
C2_BatchConfirmed ==
    \A i \in 1..Len(returned) :
        Len(returned[i].actions) > 1 => returned[i].requiresConfirmation

\* two add_task entries flagged false under a top-level flag false were
\* answered with two unflagged actions and a flagged response
C2_Witness ==
    /\ Handled
    /\ RepliedWith(("actions" :> JList(<<JObj(("type" :> JStr(S("add_task")))
                                             @@ ("description" :> JStr(S("d")))
                                             @@ ("requiresConfirmation" :> JBool(FALSE))),
                                        JObj(("type" :> JStr(S("add_task")))
                                             @@ ("description" :> JStr(S("d")))
                                             @@ ("requiresConfirmation" :> JBool(FALSE)))>>))
                   @@ ("requiresConfirmation" :> JBool(FALSE)))
    /\ Len(returned[1].actions) = 2
    /\ ~returned[1].actions[1].requiresConfirmation
    /\ ~returned[1].actions[2].requiresConfirmation
    /\ returned[1].requiresConfirmation

\* C3: every response returned satisfies: needs_clarification = true implies
\* clarification_questions is non-empty.
C3_ClarificationHasQuestions ==
    \A i \in 1..Len(returned) :
        returned[i].needs_clarification => returned[i].clarification_questions # <<>>

\* C4: every response returned satisfies: success = false implies actions is
\* empty, also when a later entry fails after actions were built.
C4_FailureHasNoActions ==
    \A i \in 1..Len(returned) : ~returned[i].success => returned[i].actions = <<>>

\* a valid entry followed by an entry that is not a dict was answered with a
\* failure
C4_Witness ==
    /\ Handled
    /\ RepliedWith("actions" :> JList(<<AddEntry, JStr(S("noise"))>>))
    /\ ~returned[1].success
    /\ returned[1].actions = <<>>

RECURSIVE WithType(_)
\* the entries of an actions list that carry a type
WithType(entries) ==
    IF entries = <<>> THEN <<>>
    ELSE IF "type" \in DOMAIN Head(entries).f
    THEN <<Head(entries)>> \o WithType(Tail(entries))
    ELSE WithType(Tail(entries))

\* the reply is a bare document whose actions are dicts, one of them without
\* a type, and nothing else in it is malformed
HasUntypedEntry ==
    /\ completion.kind = "text"
    /\ Len(completion.text) = 1
    /\ completion.text[1].c = "doc"
    /\ completion.text[1].v.t = "obj"
    /\ DOMAIN completion.text[1].v.f \subseteq {"actions", "requiresConfirmation"}
    /\ "actions" \in DOMAIN completion.text[1].v.f
    /\ completion.text[1].v.f["actions"].t = "list"
    /\ \A i \in 1..Len(completion.text[1].v.f["actions"].items) :
          completion.text[1].v.f["actions"].items[i].t = "obj"
    /\ \E i \in 1..Len(completion.text[1].v.f["actions"].items) :
          "type" \notin DOMAIN completion.text[1].v.f["actions"].items[i].f

\* C5: when the reply parses and its actions list contains an entry with no
\* type, that entry alone is dropped: success = true and the actions are the
\* remaining entries in their original order.
C5_UntypedEntryDropped ==
    (Handled /\ HasUntypedEntry) =>
        /\ returned[1].success
        /\ Len(returned[1].actions) = Len(WithType(completion.text[1].v.f["actions"].items))
        /\ \A i \in 1..Len(returned[1].actions) :
              returned[1].actions[i].type
                  = WithType(completion.text[1].v.f["actions"].items)[i].f["type"].s

\* C6: every action of every response returned has a non-empty description.
C6_DescriptionNonEmpty ==
    \A i \in 1..Len(returned) : \A j \in 1..Len(returned[i].actions) :
        returned[i].actions[j].description # <<>>

\* C7: the handling of a request ends by returning exactly one response and
\* no exception leaves chat(), whatever the message, the snapshot and the
\* outcome of the completion call.
C7_ExactlyOneResponse ==
    /\ ~escaped
    /\ pc = "done" => Len(returned) = 1
    /\ pc # "done" => returned = <<>>

\* a request whose snapshot cannot be serialized was answered with a failure
C7_Witness ==
    /\ Handled
    /\ ContextRaises(request.context, request.message)
    /\ ~returned[1].success
    /\ calls = 0

\* C8: no completion call is issued for a message that is empty or only
\* whitespace, for a message longer than 2000 characters, or without a
\* credential, and the response then has success = false.
C8_NoCallWhenRejected ==
    (pc # "idle" /\ (Strip(request.message) = <<>> \/ TextLen(request.message) > 2000 \/ ~api_key))
        => /\ calls = 0
           /\ completion = NoCompletion
           /\ \A i \in 1..Len(returned) : ~returned[i].success

\* a message of exactly 2001 characters was rejected, with a credential
\* configured, without a completion call
C8_Witness ==
    /\ Handled
    /\ api_key
    /\ TextLen(request.message) = 2001
    /\ calls = 0
    /\ ~returned[1].success

\* the reply has no parseable structure: json.loads raises JSONDecodeError
Unparseable == completion.kind = "text" /\ ~json_loads(Sanitize(completion.text)).ok

\* the reply embedded in the message of a response, without the marker
Embedded(resp) ==
    IF resp.message.raw # <<>> /\ resp.message.raw[Len(resp.message.raw)] = Ellipsis
    THEN SubSeq(resp.message.raw, 1, Len(resp.message.raw) - 1)
    ELSE resp.message.raw

Marked(resp) == resp.message.raw # <<>> /\ resp.message.raw[Len(resp.message.raw)] = Ellipsis

\* C9: for a reply with no parseable structure the response has success =
\* false, needs_clarification = true, a question and no actions, and embeds
\* the (trimmed) reply cut to its first 500 characters, followed by the
\* truncation marker exactly when the trimmed reply was longer.
C9_UnparseableFallback ==
    (Handled /\ Unparseable) =>
        /\ ~returned[1].success
        /\ returned[1].needs_clarification
        /\ returned[1].clarification_questions # <<>>
        /\ returned[1].actions = <<>>
        /\ TextLen(Embedded(returned[1])) <= 500
        /\ Embedded(returned[1]) = Slice(Strip(completion.text), TextLen(Embedded(returned[1])))
        /\ Marked(returned[1]) <=> TextLen(Strip(completion.text)) > 500
        /\ Marked(returned[1]) => TextLen(Embedded(returned[1])) = 500
        /\ ~Marked(returned[1]) => Embedded(returned[1]) = Strip(completion.text)

\* a prose reply of 501 characters was embedded as 500 characters and the
\* marker
C9_Witness ==
    /\ Handled
    /\ Unparseable
    /\ TextLen(Strip(completion.text)) = 501
    /\ Marked(returned[1])
    /\ TextLen(Embedded(returned[1])) = 500

\* C10: within the handling of one request the completion call is issued at
\* most once, also after an error, an empty reply or an unparseable reply.
C10_AtMostOneCall == calls <= 1

\* the completion call raised and the request was answered after one call
C10_Witness ==
    /\ Handled
    /\ completion.kind = "error"
    /\ calls = 1
    /\ ~returned[1].success

\* C11: under any interleaving of concurrently handled requests, handling a
\* request never modifies the shared service state nor the request being
\* handled, and what a handler sends and returns is determined by its own
\* request and completion.
C11_Isolation ==
    /\ [][/\ service' = service
          /\ \A i \in 1..MaxInFlight :
                H(i).pc \notin {"idle", "done"} => H(i)'.request = H(i).request]_vars
    /\ [](\A i, j \in 1..MaxInFlight :
            /\ (H(i).request = H(j).request /\ H(i).messages # <<>> /\ H(j).messages # <<>>)
                  => H(i).messages = H(j).messages
            /\ (H(i).request = H(j).request /\ H(i).completion = H(j).completion
                  /\ H(i).pc = "done" /\ H(j).pc = "done")
                  => H(i).returned = H(j).returned)

\* two handlers await their completions at the same time, for requests of
\* different years, each with the messages of its own request, and the
\* stored template is the one the service was built with
C11_Witness ==
    /\ H(1).pc = "awaiting"
    /\ H(2).pc = "awaiting"
    /\ H(1).request.now.year # H(2).request.now.year
    /\ H(1).messages = BuildMessages(Template, H(1).request, H(1).request.now)
    /\ H(2).messages = BuildMessages(Template, H(2).request, H(2).request.now)
    /\ system_prompt = Template

\* _calculate_date has returned for the call in fn_in
Resolved == fn_out # NoCall /\ fn_out.fn = "_calculate_date"

\* the returned text is a date written YYYY-MM-DD
IsIsoText(text) ==
    /\ Len(text) = 5
    /\ text[1].k = "n" /\ text[1].w = 4
    /\ text[2] = W("-") /\ text[4] = W("-")
    /\ text[3].k = "n" /\ text[3].w = 2
    /\ text[5].k = "n" /\ text[5].w = 2

\* the returned text spells the date
Spells(text, date) ==
    IsIsoText(text) /\ text[1].n = date.year /\ text[3].n = date.month /\ text[5].n = date.day

\* the returned text spells a date strictly after the date
SpellsAfter(text, date) ==
    /\ IsIsoText(text)
    /\ \/ text[1].n > date.year
       \/ text[1].n = date.year /\ text[3].n > date.month
       \/ text[1].n = date.year /\ text[3].n = date.month /\ text[5].n > date.day

\* the expression of the call, as the resolver compares it
CalledWith(exprs) == Resolved /\ date_expr(fn_in.expr) \in exprs

\* C12 as stated: every expression of rules 1 to 3, the today literal
\* included, resolves to a date strictly after the reference date.
C12_StrictlyAfter ==
    CalledWith(TodayExprs \cup TomorrowExprs \cup NextWeekdayExprs \cup NextWeekExprs)
        => SpellsAfter(fn_out.value, fn_in.ref)

\* C12 amended: the tomorrow literals, the next-<weekday> tokens of both
\* locales and next week resolve to a date strictly after the reference
\* date, never the reference day itself; the today literals resolve to the
\* reference date.
C12_StrictlyAfterExceptToday ==
    /\ CalledWith(TomorrowExprs \cup NextWeekdayExprs \cup NextWeekExprs)
          => SpellsAfter(fn_out.value, fn_in.ref)
    /\ CalledWith(TodayExprs) => Spells(fn_out.value, fn_in.ref)

\* "next monday" asked on Monday 2026-11-02 resolved to 2026-11-09
C12_Witness ==
    /\ Resolved
    /\ fn_in.expr = <<W("next"), Sp, W("monday")>>
    /\ fn_in.ref = Date(2026, 11, 2)
    /\ fn_out.value = <<Num(2026, 4), W("-"), Num(11, 2), W("-"), Num(9, 2)>>

\* C13: for every month M and day D that form a valid date in the year of
\* the reference date, 29 February of a leap year included, "M yue D ri"
\* resolves to that day of the reference year, written YYYY-MM-DD.
C13_MonthDayInReferenceYear ==
    \A m \in 1..12 : \A d \in 1..31 :
        (Resolved /\ fn_in.expr = MonthDay(m, d)
            /\ ValidDate(fn_in.ref.year, m, d))
        => Spells(fn_out.value, Date(fn_in.ref.year, m, d))

\* C14: for every N, "N days later" resolves to the reference date plus N
\* days in both locales: "N tian hou", "N ri hou", "N days later" and
\* "N day later".
C14_DaysLaterBothLocales ==
    \A n \in 0..MaxDays :
        CalledWith(DaysLaterZh(n) \cup DaysLaterEn(n))
            => Spells(fn_out.value, AddDays(fn_in.ref, n))

\* the document of the reply as written: the pieces and the literals of the
\* extracted text without the comments that stand between the pieces
RECURSIVE Uncommented(_, _)
Uncommented(text, at) ==
    IF text = <<>> THEN <<>>
    ELSE IF Head(text).c = "part"
    THEN <<Head(text)>> \o Uncommented(Tail(text), Head(text).at)
    ELSE IF at # "" THEN <<Head(text)>> \o Uncommented(Tail(text), at)
    ELSE Uncommented(Tail(text), at)

\* the value of the payload the reply carries
PayloadOf(text) == json_loads(Uncommented(ExtractJson(text), "")).value

\* the response gives the actions and the response of the payload
Carries(resp, payload) ==
    /\ resp.success
    /\ Len(resp.actions) = Len(payload.f["actions"].items)
    /\ \A i \in 1..Len(resp.actions) :
          resp.actions[i].type = payload.f["actions"].items[i].f["type"].s
    /\ resp.message = Msg(payload.f["response"].s, <<>>)

\* C15: a reply that carries a valid payload, raw or in a fenced block, with
\* // line comments or /* */ block comments between the tokens of the JSON
\* is answered with success = true and the payload's actions and response.
C15_CommentedPayloadParsed ==
    (Handled /\ completion.kind = "text" /\ completion.text \in CommentedTexts)
        => Carries(returned[1], PayloadOf(completion.text))

\* C17: for a comment-free payload whose response string holds '//', the
\* sanitized text parses to the value of the payload as written and the
\* response has success = true.
C17_SlashesInStringKept ==
    (Handled /\ completion.kind = "text" /\ completion.text \in UrlTexts)
        => /\ json_loads(Sanitize(completion.text)) = json_loads(ExtractJson(completion.text))
           /\ returned[1].success

\* the context of the request has been serialized into the user message
Serialized == messages # <<>> /\ "tasks" \in DOMAIN request.context

RECURSIVE TasksOfGroup(_, _, _)
\* the tasks of the snapshot that belong to the group, in their order
TasksOfGroup(tasks, buckets, name) ==
    IF tasks = <<>> THEN <<>>
    ELSE IF TaskBucket(Head(tasks).f, buckets) = name
    THEN <<Head(tasks)>> \o TasksOfGroup(Tail(tasks), buckets, name)
    ELSE TasksOfGroup(Tail(tasks), buckets, name)

\* the cap as the claim states it
Cap(tasks) == IF Len(tasks) > 50 THEN 10 ELSE 15

\* the block shows the first min(n, cap) lines of its n tasks and the
\* omitted count n - cap exactly when n > cap
Capped(block, own, cap, message) ==
    /\ Len(block.lines) = (IF Len(own) < cap THEN Len(own) ELSE cap)
    /\ \A i \in 1..Len(block.lines) : block.lines[i] = task_info(own[i].f, message)
    /\ Len(own) > cap => block.more = <<Len(own) - cap>>
    /\ Len(own) <= cap => block.more = <<>>

\* C16: in the serialized context every group shows min(n, cap) task lines,
\* the first ones in the order of the snapshot, where n is the number of its
\* tasks and cap is 10 when the snapshot has more than 50 tasks and 15
\* otherwise, and the line with the omitted count n - cap exactly when n > cap.
C16_GroupCap ==
    Serialized =>
        \A g \in 1..Len(messages[2].content.context_info.groups) :
            Capped(messages[2].content.context_info.groups[g],
                   TasksOfGroup(request.context.tasks.items, request.context.buckets.items,
                                messages[2].content.context_info.groups[g].name),
                   Cap(request.context.tasks.items), request.message)

\* a snapshot of 50 tasks shows 14 lines of a group of 14, and a snapshot of
\* 51 tasks shows 10 lines of a group of 15 and 5 omitted
C16_Witness ==
    /\ Serialized
    /\ Len(messages[2].content.context_info.groups) = 2
    /\ \/ /\ Len(request.context.tasks.items) = 50
          /\ Len(messages[2].content.context_info.groups[1].lines) = 14
          /\ messages[2].content.context_info.groups[1].more = <<>>
          /\ Len(messages[2].content.context_info.groups[2].lines) = 15
          /\ messages[2].content.context_info.groups[2].more = <<21>>
       \/ /\ Len(request.context.tasks.items) = 51
          /\ Len(messages[2].content.context_info.groups[1].lines) = 10
          /\ messages[2].content.context_info.groups[1].more = <<5>>

\* the reply parsed to a dict and was answered on the success path
Succeeded ==
    /\ Handled
    /\ completion.kind = "text"
    /\ returned[1].success
    /\ json_loads(Sanitize(completion.text)).ok

\* the top-level requiresConfirmation of the reply is true
ReplyFlag ==
    Get(json_loads(Sanitize(completion.text)).value.f, "requiresConfirmation", JBool(FALSE))
        = JBool(TRUE)

\* C18: on the success path the requiresConfirmation of the response is true
\* exactly when an emitted action is of a dangerous type, or more than one
\* action is emitted, or the top-level requiresConfirmation of the reply is
\* true; the own flag of a single non-dangerous action does not count.
C18_ResultFlag ==
    Succeeded =>
        (returned[1].requiresConfirmation
            <=> \/ \E i \in 1..Len(returned[1].actions) :
                      returned[1].actions[i].type \in dangerous_actions
                \/ Len(returned[1].actions) > 1
                \/ ReplyFlag)

\* a single add_task that asks for confirmation itself, in a reply without
\* a top-level flag, was answered without the result-level flag
C18_Witness ==
    /\ Succeeded
    /\ ~ReplyFlag
    /\ Len(returned[1].actions) = 1
    /\ returned[1].actions[1].type = S("add_task")
    /\ returned[1].actions[1].requiresConfirmation
    /\ ~returned[1].requiresConfirmation

====
